---- MODULE Spec2Model ----
(***************************************************************************)
(* Model of the redis sink of eKuiper (internal/io/redis/sink.go).         *)
(*                                                                         *)
(* The sink holds a validated config (r.c) and a store client (r.cli).     *)
(* Provision/Validate/Ping install the config, Connect/Close manage the    *)
(* client, Collect/CollectList turn records into store operations through  *)
(* save.  Every API call is one action; its observable outcome (returned   *)
(* error, store operations issued, errors logged) is kept in the state so  *)
(* that properties of the call can be stated as invariants.                *)
(***************************************************************************)
EXTENDS Integers, Sequences, FiniteSets, TLC

\* ------------------------------------------------------------------ bounds
\* largest number of tuples in one CollectList batch
MaxBatch == 2

\* ------------------------------------------------------- program constants
MinDb == 0
MaxDb == 15
DefaultExpiration == -1

\* -------------------------------------------------------------- Go values
\* A dynamically typed Go value (any): string, int, bool, float64 NaN, or a
\* nested map.  One record shape for all of them, discriminated by t.
VStr(s) == [t |-> "string", s |-> s,  n |-> 0, b |-> FALSE]
VInt(n) == [t |-> "int",    s |-> "", n |-> n, b |-> FALSE]
VBool(b) == [t |-> "bool",   s |-> "", n |-> 0, b |-> b]
VNaN    == [t |-> "nan",    s |-> "", n |-> 0, b |-> FALSE]
VMap    == [t |-> "map",    s |-> "", n |-> 0, b |-> FALSE]

\* ------------------------------------------------------------------ errors
\* An error value: kind names the failing check, op and key are the store
\* operation and key the message is formatted with ("" when it has none).
Err(kind, op, key) == [kind |-> kind, op |-> op, key |-> key]
NoErr == Err("nil", "", "")

Digit == <<"0", "1", "2", "3", "4", "5", "6", "7", "8", "9">>

RECURSIVE IntStr(_)
IntStr(n) ==
    IF n < 0 THEN "-" \o IntStr(-n)
    ELSE IF n < 10 THEN Digit[n + 1]
    ELSE IntStr(n \div 10) \o Digit[(n % 10) + 1]

\* cast.ToString(val, cast.CONVERT_ALL): the string form of a scalar; a
\* structured value is not convertible and gives ("", error).
CastToString(val) ==
    CASE val.t = "string" -> [s |-> val.s, err |-> NoErr]
      [] val.t = "int"    -> [s |-> IntStr(val.n), err |-> NoErr]
      [] val.t = "bool"   -> [s |-> IF val.b THEN "true" ELSE "false", err |-> NoErr]
      [] val.t = "nan"    -> [s |-> "NaN", err |-> NoErr]
      [] OTHER            -> [s |-> "", err |-> Err("cast", "", "")]

\* Field names of the records, in the byte order json.Marshal sorts map
\* keys in.
FieldNames == <<"a", "b", "id", "name", "op">>

Quote(s) == "\"" \o s \o "\""

\* encoding/json of one value; NaN is an unsupported value.
JsonValue(val) ==
    CASE val.t = "string" -> [s |-> Quote(val.s), err |-> NoErr]
      [] val.t = "int"    -> [s |-> IntStr(val.n), err |-> NoErr]
      [] val.t = "bool"   -> [s |-> IF val.b THEN "true" ELSE "false", err |-> NoErr]
      [] val.t = "map"    -> [s |-> "{}", err |-> NoErr]
      [] OTHER            -> [s |-> "", err |-> Err("json", "", "")]

RECURSIVE JsonMembers(_, _, _)
JsonMembers(data, i, first) ==
    IF i > Len(FieldNames) THEN ""
    ELSE IF FieldNames[i] \in DOMAIN data
         THEN (IF first THEN "" ELSE ",")
              \o Quote(FieldNames[i]) \o ":" \o JsonValue(data[FieldNames[i]]).s
              \o JsonMembers(data, i + 1, FALSE)
         ELSE JsonMembers(data, i + 1, first)

\* json.Marshal(data) of a map[string]any: members in sorted key order, an
\* error when any member is unsupported.
JsonMarshal(data) ==
    IF \E k \in DOMAIN data : JsonValue(data[k]).err # NoErr
    THEN [s |-> "", err |-> Err("json", "", "")]
    ELSE [s |-> "{" \o JsonMembers(data, 1, TRUE) \o "}", err |-> NoErr]

\* ------------------------------------------------------------------ config
\* The option names of the property map (the json tags of config) that the
\* sink's logic reads, with the Go type of the struct field each decodes to.
OptionType == [db |-> "int", field |-> "string", key |-> "string",
               keyType |-> "string", dataType |-> "string",
               expiration |-> "int", rowkindField |-> "string"]

\* c := &config{DataType: "string", Expiration: -1, KeyType: "single"}
DefaultConfig == [db |-> VInt(0), field |-> VStr(""), key |-> VStr(""),
                  keyType |-> VStr("single"), dataType |-> VStr("string"),
                  expiration |-> VInt(DefaultExpiration), rowkindField |-> VStr("")]

\* The config struct with its fields decoded from m.
ConfigOf(m) == [Db |-> m.db.n, Field |-> m.field.s, Key |-> m.key.s,
                KeyType |-> m.keyType.s, DataType |-> m.dataType.s,
                Expiration |-> m.expiration.n, RowkindField |-> m.rowkindField.s]

\* cast.MapToStruct(props, c): every supplied option overwrites the field
\* of the same json tag; a value of another type than the field is an error.
MapToStruct(props, dflt) ==
    IF \E k \in DOMAIN props : props[k].t # OptionType[k]
    THEN [c |-> ConfigOf(dflt), err |-> Err("decode", "", "")]
    ELSE [c |-> ConfigOf([k \in DOMAIN dflt |->
                            IF k \in DOMAIN props THEN props[k] ELSE dflt[k]]),
          err |-> NoErr]

\* CheckConfig with the upper bound of the database index off by one.
CheckConfigDb16(cfg) ==
    IF cfg.Db < MinDb \/ cfg.Db > MaxDb + 1 THEN Err("dbRange", "", "")
    ELSE IF cfg.KeyType = "single" /\ cfg.Key = "" /\ cfg.Field = ""
         THEN Err("noKeyOrField", "", "")
    ELSE IF cfg.KeyType # "single" /\ cfg.KeyType # "multiple"
         THEN Err("keyType", "", "")
    ELSE IF cfg.DataType # "string" /\ cfg.DataType # "list"
         THEN Err("dataType", "", "")
    ELSE NoErr

\* The checks of Validate on the decoded config, in the order of the code.
CheckConfig(cfg) ==
    IF cfg.Db < MinDb \/ cfg.Db > MaxDb THEN Err("dbRange", "", "")
    ELSE IF cfg.KeyType = "single" /\ cfg.Key = "" /\ cfg.Field = ""
         THEN Err("noKeyOrField", "", "")
    ELSE IF cfg.KeyType # "single" /\ cfg.KeyType # "multiple"
         THEN Err("keyType", "", "")
    ELSE IF cfg.DataType # "string" /\ cfg.DataType # "list"
         THEN Err("dataType", "", "")
    ELSE NoErr

\* RedisSink.Validate: the value of r.c afterwards and the error returned.
\* r.c is <<>> while nil and <<cfg>> once set.
Validate(rc, props) ==
    LET m == MapToStruct(props, DefaultConfig) IN
    IF m.err # NoErr THEN [c |-> rc, err |-> m.err]
    ELSE IF CheckConfig(m.c) # NoErr THEN [c |-> rc, err |-> CheckConfig(m.c)]
    ELSE [c |-> <<m.c>>, err |-> NoErr]

\* -------------------------------------------------------------------- save
\* ast.RowkindInsert, ast.RowkindUpdate, ast.RowkindUpsert, ast.RowkindDelete
RowkindInsert == "insert"
RowkindUpdate == "update"
RowkindUpsert == "upsert"
RowkindDelete == "delete"

\* ResolveMultiple leaving out the fields whose conversion fails.
ResolveMultipleSkip(data) ==
    [values |-> [k \in {f \in DOMAIN data : CastToString(data[f]).err = NoErr}
                   |-> CastToString(data[k]).s],
     err |-> NoErr]

\* The key mode branch for KeyType "multiple": one entry per field of the
\* record; the conversion error is dropped (v, _ := cast.ToString(...)).
ResolveMultiple(data) ==
    [values |-> [k \in DOMAIN data |-> CastToString(data[k]).s], err |-> NoErr]

\* ResolveSingle with the static key taking precedence over Field.
ResolveSingleKeyFirst(cfg, data) ==
    LET j == JsonMarshal(data) IN
    IF j.err # NoErr THEN [values |-> <<>>, err |-> j.err]
    ELSE IF cfg.Key = "" /\ cfg.Field # ""
         THEN IF cfg.Field \notin DOMAIN data
              THEN [values |-> <<>>, err |-> Err("fieldNotExist", "", "")]
              ELSE LET k == CastToString(data[cfg.Field]) IN
                   IF k.err # NoErr
                   THEN [values |-> <<>>, err |-> Err("keyNotString", "", "")]
                   ELSE [values |-> (k.s :> j.s), err |-> NoErr]
         ELSE [values |-> (cfg.Key :> j.s), err |-> NoErr]

\* ResolveSingle falling back to the static key when the record has no
\* usable Field.
ResolveSingleFallback(cfg, data) ==
    LET j == JsonMarshal(data) IN
    IF j.err # NoErr THEN [values |-> <<>>, err |-> j.err]
    ELSE IF cfg.Field # "" /\ cfg.Field \in DOMAIN data
            /\ CastToString(data[cfg.Field]).err = NoErr
         THEN [values |-> (CastToString(data[cfg.Field]).s :> j.s), err |-> NoErr]
         ELSE [values |-> (cfg.Key :> j.s), err |-> NoErr]

\* The key mode branch for any other KeyType: the whole record as JSON
\* under the static key, or under the string form of data[Field] when Field
\* is set.
ResolveSingle(cfg, data) ==
    LET j == JsonMarshal(data) IN
    IF j.err # NoErr THEN [values |-> <<>>, err |-> j.err]
    ELSE IF cfg.Field # ""
         THEN IF cfg.Field \notin DOMAIN data
              THEN [values |-> <<>>, err |-> Err("fieldNotExist", "", "")]
              ELSE LET k == CastToString(data[cfg.Field]) IN
                   IF k.err # NoErr
                   THEN [values |-> <<>>, err |-> Err("keyNotString", "", "")]
                   ELSE [values |-> (k.s :> j.s), err |-> NoErr]
         ELSE [values |-> (cfg.Key :> j.s), err |-> NoErr]

\* "prepare key value pairs": the map values of save, or its early error.
Resolve(cfg, data) ==
    IF cfg.KeyType = "multiple" THEN ResolveMultiple(data)
    ELSE ResolveSingle(cfg, data)

\* Rowkind without the check against the four known kinds.
RowkindUnchecked(cfg, data) ==
    IF cfg.RowkindField # "" /\ cfg.RowkindField \in DOMAIN data
    THEN LET v == data[cfg.RowkindField] IN
         IF v.t # "string"
         THEN [rowkind |-> "", err |-> Err("rowkindNotString", "", "")]
         ELSE [rowkind |-> v.s, err |-> NoErr]
    ELSE [rowkind |-> RowkindUpsert, err |-> NoErr]

\* "get action type": the rowkind of the record, or the early error.
Rowkind(cfg, data) ==
    IF cfg.RowkindField # "" /\ cfg.RowkindField \in DOMAIN data
    THEN LET v == data[cfg.RowkindField] IN
         IF v.t # "string"
         THEN [rowkind |-> "", err |-> Err("rowkindNotString", "", "")]
         ELSE IF v.s # RowkindInsert /\ v.s # RowkindUpdate
                 /\ v.s # RowkindDelete /\ v.s # RowkindUpsert
              THEN [rowkind |-> v.s, err |-> Err("invalidRowkind", "", "")]
              ELSE [rowkind |-> v.s, err |-> NoErr]
    ELSE [rowkind |-> RowkindUpsert, err |-> NoErr]

\* Dispatch with delete on a list pushing instead of popping.
DispatchPushOnDelete(rowkind, dataType) ==
    IF rowkind \in {RowkindInsert, RowkindUpdate, RowkindUpsert}
    THEN (IF dataType = "list" THEN "LPUSH" ELSE "SET")
    ELSE IF rowkind = RowkindDelete
         THEN (IF dataType = "list" THEN "LPUSH" ELSE "DEL")
         ELSE "NONE"

\* The client method the switch of save calls for a rowkind and data type;
\* "NONE" is the default branch, which only logs.
Dispatch(rowkind, dataType) ==
    IF rowkind \in {RowkindInsert, RowkindUpdate, RowkindUpsert}
    THEN (IF dataType = "list" THEN "LPUSH" ELSE "SET")
    ELSE IF rowkind = RowkindDelete
         THEN (IF dataType = "list" THEN "LPOP" ELSE "DEL")
         ELSE "NONE"

\* The store operation issued for one key: LPush(key, val), Set(key, val,
\* Expiration), LPop(key) or Del(key), and whether the store accepted it.
StoreOp(cfg, rowkind, key, val, ok) ==
    LET kind == Dispatch(rowkind, cfg.DataType) IN
    [kind |-> kind, key |-> key,
     val |-> IF kind \in {"LPUSH", "SET"} THEN val ELSE "",
     exp |-> IF kind = "SET" THEN cfg.Expiration ELSE 0,
     ok |-> ok]

\* The error save returns when the store rejects an operation: lpush, set
\* and lpop are formatted with the operation and the key, Del's error is
\* returned as the client gave it.
StoreErr(kind, key) ==
    CASE kind = "LPUSH" -> Err("store", "lpush", key)
      [] kind = "SET"   -> Err("store", "set", key)
      [] kind = "LPOP"  -> Err("store", "lpop", key)
      [] OTHER          -> Err("redis", "", "")

\* "set key value pairs": the loop over values in the iteration order the
\* map gave, from position i on; it returns at the first rejected operation.
RECURSIVE WriteAll(_, _, _, _, _, _, _)
WriteAll(cfg, rowkind, values, order, i, failing, ops) ==
    IF i > Len(order) THEN [ops |-> ops, err |-> NoErr]
    ELSE LET key  == order[i]
             kind == Dispatch(rowkind, cfg.DataType)
             ok   == key \notin failing
             op   == StoreOp(cfg, rowkind, key, values[key], ok)
         IN  IF kind = "NONE"
             THEN WriteAll(cfg, rowkind, values, order, i + 1, failing, ops)
             ELSE IF ~ok
                  THEN [ops |-> Append(ops, op), err |-> StoreErr(kind, key)]
                  ELSE WriteAll(cfg, rowkind, values, order, i + 1, failing,
                                Append(ops, op))

\* RedisSink.save: the resolved map, the rowkind, the store operations
\* issued (in order) and the error returned.  order is the order in which
\* range visits the keys of values; failing is the set of keys whose store
\* operation the store rejects.
save(cfg, data, order, failing) ==
    LET r == Resolve(cfg, data) IN
    IF r.err # NoErr
    THEN [values |-> r.values, rowkind |-> "", ops |-> <<>>, err |-> r.err]
    ELSE LET k == Rowkind(cfg, data) IN
         IF k.err # NoErr
         THEN [values |-> r.values, rowkind |-> k.rowkind, ops |-> <<>>,
               err |-> k.err]
         ELSE LET w == WriteAll(cfg, k.rowkind, r.values, order, 1, failing, <<>>)
              IN  [values |-> r.values, rowkind |-> k.rowkind, ops |-> w.ops,
                   err |-> w.err]

\* RangeOfTuples stopping after the first tuple whose save fails.
RangeOfTuplesAbort(cfg, items, orders, failing) ==
    LET all == [i \in 1..Len(items) |-> save(cfg, items[i], orders[i], failing)]
        bad == {i \in 1..Len(items) : all[i].err # NoErr}
        last == IF bad = {} THEN Len(items)
                ELSE CHOOSE i \in bad : \A j \in bad : i <= j
    IN  [i \in 1..last |-> all[i]]

\* RangeOfTuples of CollectList: save on every tuple, in order; the
\* callback always returns true, so the iteration never stops early.
RangeOfTuples(cfg, items, orders, failing) ==
    [i \in 1..Len(items) |-> save(cfg, items[i], orders[i], failing)]

\* The errors the callback logged, in order.
RECURSIVE Logged(_, _)
Logged(saved, i) ==
    IF i > Len(saved) THEN <<>>
    ELSE IF saved[i].err # NoErr THEN <<saved[i].err>> \o Logged(saved, i + 1)
         ELSE Logged(saved, i + 1)

\* RedisSink.CollectList: the saves made, the errors logged, the error
\* returned (always nil).
CollectList(cfg, items, orders, failing) ==
    LET saved == RangeOfTuples(cfg, items, orders, failing)
    IN  [saves |-> saved, logged |-> Logged(saved, 1), err |-> NoErr]

\* ------------------------------------------------------------------ inputs
\* Property maps handed to Provision and Ping: every combination of the
\* key mode, data type, key and field options, and on top of a valid base
\* a rowkind field, an unknown key mode and data type, the database indexes
\* around the range, an expiration and two options of the wrong type.
Opt(name, vals) == {<<>>} \cup {(name :> v) : v \in vals}

CoreProps ==
    {kt @@ dt @@ k @@ f :
        kt \in Opt("keyType", {VStr("multiple")}),
        dt \in Opt("dataType", {VStr("list")}),
        k  \in Opt("key", {VStr("k")}),
        f  \in Opt("field", {VStr("id")})}

RowkindProps ==
    {("rowkindField" :> VStr("op")) @@ p :
        p \in {("key" :> VStr("k")),
               ("field" :> VStr("id")) @@ ("key" :> VStr("k")),
               ("keyType" :> VStr("multiple")),
               ("keyType" :> VStr("multiple")) @@ ("dataType" :> VStr("list")),
               ("key" :> VStr("k")) @@ ("dataType" :> VStr("list"))}}

EdgeProps ==
    {("key" :> VStr("k")) @@ p :
        p \in {("keyType" :> VStr("hash")), ("dataType" :> VStr("set")),
               ("db" :> VInt(-1)), ("db" :> VInt(0)), ("db" :> VInt(15)),
               ("db" :> VInt(16)), ("db" :> VStr("1")),
               ("expiration" :> VInt(60)), ("rowkindField" :> VInt(5))}}

PropsSet == CoreProps \cup RowkindProps \cup EdgeProps

\* Records handed to Collect.
Records ==
    { [id |-> VStr("u1"), name |-> VStr("Ann")],
      [a |-> VInt(1), b |-> VStr("x")],
      [id |-> VInt(7), op |-> VStr("delete")],
      [name |-> VStr("Ann"), op |-> VStr("insert")],
      [id |-> VStr("u1"), op |-> VStr("archive")],
      [id |-> VMap, op |-> VStr("update")],
      [id |-> VStr("u2"), op |-> VInt(5)],
      [id |-> VStr("u1"), op |-> VStr("upsert")],
      [a |-> VNaN, id |-> VStr("u2")],
      [op |-> VStr("archive")],
      [a |-> VBool(TRUE), b |-> VMap, id |-> VStr("u1")] }

\* Records of the batches handed to CollectList.
BatchRecords ==
    { [id |-> VStr("u1")],
      [id |-> VInt(7), op |-> VStr("delete")],
      [op |-> VStr("archive")] }

\* The sets of keys whose operation the store rejects during one call.
DownSets == { {}, {"k", "u1", "id", "a"}, {"7", "name", "b", "op"} }

\* All keys a record of the model can resolve to.
AllKeys == {"k", "u1", "u2", "7", "a", "b", "id", "name", "op"}

RECURSIVE Perms(_)
\* The orders in which range can visit a map with key set S.
Perms(S) ==
    IF S = {} THEN {<<>>}
    ELSE UNION {{<<x>> \o p : p \in Perms(S \ {x})} : x \in S}

RECURSIVE Batches(_)
\* The batches of exactly n tuples.
Batches(n) ==
    IF n = 0 THEN {<<>>}
    ELSE {Append(b, r) : b \in Batches(n - 1), r \in BatchRecords}

RECURSIVE OrdersOf(_, _, _)
\* One iteration order for each tuple of a batch, from tuple i on.
OrdersOf(cfg, items, i) ==
    IF i > Len(items) THEN {<<>>}
    ELSE {<<o>> \o rest :
            o \in Perms(DOMAIN Resolve(cfg, items[i]).values),
            rest \in OrdersOf(cfg, items, i + 1)}

\* ------------------------------------------------------------------- state
VARIABLES
    c,       \* r.c: <<>> while nil, <<config>> once a validation succeeded
    cli,     \* r.cli: "nil", "open" or "closed"
    op,      \* the API call made last
    status,  \* the status it handed to the StatusChangeHandler, if any
    props,   \* its property map (Provision, Ping)
    items,   \* its tuples, as maps (Collect, CollectList)
    saves,   \* the result of save for each of them
    logged,  \* the errors CollectList logged
    ret      \* the error it returned

vars == <<c, cli, status, op, props, items, saves, logged, ret>>

\* Connect, Collect, CollectList and Close dereference r.c or r.cli: the
\* engine calls them on a provisioned (and, for the last three, connected)
\* sink only.
Provisioned == c # <<>>
Connected == c # <<>> /\ cli # "nil"

\* GetSink: &RedisSink{}
Init ==
    /\ c = <<>>
    /\ cli = "nil"
    /\ status = "none"
    /\ op = "GetSink"
    /\ props = <<>>
    /\ items = <<>>
    /\ saves = <<>>
    /\ logged = <<>>
    /\ ret = NoErr

NoTuples == /\ items' = <<>>
            /\ saves' = <<>>
            /\ logged' = <<>>

NoStatus == status' = "none"

\* The keys the store rejects: all of them once the client is closed.
Failing(down) == IF cli = "closed" THEN AllKeys ELSE down

Provision(p) ==
    /\ LET v == Validate(c, p) IN
         /\ c' = v.c
         /\ ret' = v.err
    /\ op' = "Provision"
    /\ props' = p
    /\ NoTuples
    /\ NoStatus
    /\ UNCHANGED cli

\* pingOk: whether the server answered the PING of the new client.
Connect(pingOk) ==
    /\ Provisioned
    /\ cli' = "open"
    /\ status' = IF pingOk THEN "connected" ELSE "disconnected"
    /\ ret' = IF pingOk THEN NoErr ELSE Err("redis", "", "")
    /\ op' = "Connect"
    /\ props' = <<>>
    /\ NoTuples
    /\ UNCHANGED c

\* The client of Ping is local to the call and closed when it returns.
Ping(p, pingOk) ==
    /\ LET v == Validate(c, p) IN
         /\ c' = v.c
         /\ ret' = IF v.err # NoErr THEN v.err
                   ELSE IF pingOk THEN NoErr ELSE Err("redis", "", "")
    /\ op' = "Ping"
    /\ props' = p
    /\ NoTuples
    /\ NoStatus
    /\ UNCHANGED cli

Collect(data, order, down) ==
    /\ Connected
    /\ items' = <<data>>
    /\ LET s == save(c[1], data, order, Failing(down)) IN
         /\ saves' = <<s>>
         /\ ret' = s.err
    /\ logged' = <<>>
    /\ op' = "Collect"
    /\ props' = <<>>
    /\ NoStatus
    /\ UNCHANGED <<c, cli>>

DoCollectList(batch, orders, down) ==
    /\ Connected
    /\ items' = batch
    /\ LET r == CollectList(c[1], batch, orders, Failing(down)) IN
         /\ saves' = r.saves
         /\ logged' = r.logged
         /\ ret' = r.err
    /\ op' = "CollectList"
    /\ props' = <<>>
    /\ NoStatus
    /\ UNCHANGED <<c, cli>>

Close ==
    /\ cli # "nil"
    /\ cli' = "closed"
    /\ ret' = IF cli = "closed" THEN Err("redis", "", "") ELSE NoErr
    /\ op' = "Close"
    /\ props' = <<>>
    /\ NoTuples
    /\ NoStatus
    /\ UNCHANGED c

\* A single-record Collect with any record, iteration order and store fault.
CollectStep ==
    /\ Connected
    /\ \E data \in Records, down \in DownSets :
         \E order \in Perms(DOMAIN Resolve(c[1], data).values) :
            Collect(data, order, down)

\* A CollectList with any batch of at most MaxBatch tuples.
CollectListStep ==
    /\ Connected
    /\ \E n \in 0..MaxBatch, down \in DownSets :
         \E batch \in Batches(n) :
            \E orders \in OrdersOf(c[1], batch, 1) :
               DoCollectList(batch, orders, down)

Next ==
    \/ \E p \in PropsSet : Provision(p)
    \/ \E pingOk \in BOOLEAN : Connect(pingOk)
    \/ \E p \in PropsSet, pingOk \in BOOLEAN : Ping(p, pingOk)
    \/ CollectStep
    \/ CollectListStep
    \/ Close

Spec == Init /\ [][Next]_vars

\* -------------------------------------------------------------- properties
\* The config the last call ran with, and the record and save result of a
\* single-record Collect.
Cfg == c[1]
Collected == op = "Collect"
Data == items[1]
Saved == saves[1]

\* The keys of the store operations in a sequence of them.
KeysOf(ops) == {ops[j].key : j \in DOMAIN ops}

\* The operation word of the message a failed store operation is wrapped in.
OpWord(kind) ==
    CASE kind = "SET" -> "set" [] kind = "LPUSH" -> "lpush"
      [] kind = "LPOP" -> "lpop" [] kind = "DEL" -> "del" [] OTHER -> "none"

\* The rowkind field is configured, present in the record and does not hold
\* one of the four kinds as a string.
BadRowkind(cfg, data) ==
    /\ cfg.RowkindField # ""
    /\ cfg.RowkindField \in DOMAIN data
    /\ ~ ( /\ data[cfg.RowkindField].t = "string"
           /\ data[cfg.RowkindField].s \in {"insert", "update", "upsert", "delete"} )

\* Key resolution of the record succeeds: always in multiple key mode; in
\* single key mode the record has a JSON encoding and the configured field,
\* if any, is present and convertible to a string.
KeyResolves(cfg, data) ==
    \/ cfg.KeyType = "multiple"
    \/ /\ JsonMarshal(data).err = NoErr
       /\ \/ cfg.Field = ""
          \/ /\ cfg.Field \in DOMAIN data
             /\ CastToString(data[cfg.Field]).err = NoErr

IsRowkindErr(e) == e.kind \in {"rowkindNotString", "invalidRowkind"}

\* C1: in multiple key mode, once the record passed the rowkind check, a
\* store operation is attempted for every field of the record even when
\* some of them fail, and every failed key is named in the returned error.
C1_EveryKeyAttempted ==
    (Collected /\ Cfg.KeyType = "multiple" /\ ~BadRowkind(Cfg, Data)) =>
        /\ KeysOf(Saved.ops) = DOMAIN Data
        /\ \A j \in DOMAIN Saved.ops :
              ~Saved.ops[j].ok => (ret # NoErr /\ ret.key = Saved.ops[j].key)

\* C2: CollectList runs save on every tuple of the batch, in order, with
\* the outcome of each tuple independent of the failures before it, logs
\* the errors and returns nil.
C2_BatchBestEffort ==
    (op = "CollectList") =>
        /\ ret = NoErr
        /\ Len(saves) = Len(items)
        /\ \A i \in DOMAIN items :
              /\ ~KeyResolves(Cfg, items[i]) =>
                    (saves[i].err # NoErr /\ saves[i].ops = <<>>)
              /\ (/\ KeyResolves(Cfg, items[i])
                  /\ ~BadRowkind(Cfg, items[i])
                  /\ DOMAIN items[i] # {}) =>
                    saves[i].ops # <<>>
        /\ Len(logged) = Cardinality({i \in DOMAIN saves : saves[i].err # NoErr})

C2_Witness ==
    /\ op = "CollectList"
    /\ Len(items) = 2
    /\ saves[1].err # NoErr
    /\ saves[2].err = NoErr
    /\ saves[2].ops # <<>>

\* The dispatch table: the store operation for a rowkind and a data type.
TableOp(rowkind, dataType) ==
    CASE rowkind \in {"insert", "update", "upsert"} /\ dataType = "string" -> "SET"
      [] rowkind \in {"insert", "update", "upsert"} /\ dataType = "list" -> "LPUSH"
      [] rowkind = "delete" /\ dataType = "string" -> "DEL"
      [] rowkind = "delete" /\ dataType = "list" -> "LPOP"
      [] OTHER -> "INVALID"

\* The rowkind of a record: upsert unless the configured field is present.
RecordRowkind(cfg, data) ==
    IF cfg.RowkindField = "" \/ cfg.RowkindField \notin DOMAIN data
    THEN "upsert"
    ELSE data[cfg.RowkindField].s

\* C3: every store operation save issues is the one the dispatch table
\* gives for the record's rowkind and the configured data type; SET carries
\* the configured expiration; nothing else is ever issued.
C3_DispatchTable ==
    (op \in {"Collect", "CollectList"}) =>
        \A i \in DOMAIN saves : \A j \in DOMAIN saves[i].ops :
            LET o == saves[i].ops[j] IN
            /\ o.kind = TableOp(RecordRowkind(Cfg, items[i]), Cfg.DataType)
            /\ o.kind \in {"SET", "LPUSH", "DEL", "LPOP"}
            /\ o.kind = "SET" => o.exp = Cfg.Expiration
            /\ o.kind = saves[i].ops[1].kind

C3_Witness ==
    /\ Collected
    /\ Cfg.DataType = "list"
    /\ Cfg.RowkindField = "op"
    /\ Data = [id |-> VInt(7), op |-> VStr("delete")]
    /\ Len(Saved.ops) >= 1
    /\ Saved.ops[1].kind = "LPOP"

\* C4: in single key mode a successful save issues exactly one store
\* operation, keyed by the static key when field is empty and by the string
\* form of record[field] otherwise, the resolved value being the JSON
\* encoding of the record.
C4_SingleKey ==
    (Collected /\ Cfg.KeyType = "single" /\ ret = NoErr) =>
        LET key == IF Cfg.Field = "" THEN Cfg.Key
                   ELSE CastToString(Data[Cfg.Field]).s
        IN  /\ Cfg.Field # "" => Cfg.Field \in DOMAIN Data
            /\ Len(Saved.ops) = 1
            /\ Saved.ops[1].key = key
            /\ DOMAIN Saved.values = {key}
            /\ Saved.values[key] = JsonMarshal(Data).s
            /\ Saved.ops[1].kind \in {"SET", "LPUSH"} =>
                  Saved.ops[1].val = JsonMarshal(Data).s
            /\ (Data = [id |-> VStr("u1"), name |-> VStr("Ann")]
                /\ Cfg.Field = "id" /\ Cfg.DataType = "string") =>
                  Saved.ops = << [kind |-> "SET", key |-> "u1",
                                  val |-> "{\"id\":\"u1\",\"name\":\"Ann\"}",
                                  exp |-> -1, ok |-> TRUE] >>

C4_Witness ==
    /\ Collected
    /\ Cfg.KeyType = "single" /\ Cfg.Key = "k" /\ Cfg.Field = "id"
    /\ ret = NoErr
    /\ Data = [id |-> VStr("u1"), name |-> VStr("Ann")]
    /\ Saved.ops[1].key = "u1"

\* C5: in multiple key mode save resolves one mutation per field of the
\* record, keyed by the field name with the field's string form, the empty
\* string when the value is not convertible; a conversion failure never
\* makes save fail or leave out a field.
C5_MultipleKeys ==
    (Collected /\ Cfg.KeyType = "multiple") =>
        /\ DOMAIN Saved.values = DOMAIN Data
        /\ \A k \in DOMAIN Data :
              Saved.values[k] = IF Data[k].t = "map" THEN ""
                                ELSE CastToString(Data[k]).s
        /\ Saved.err.kind \notin {"cast", "keyNotString", "json", "fieldNotExist"}
        /\ ret = NoErr => /\ KeysOf(Saved.ops) = DOMAIN Data
                          /\ Len(Saved.ops) = Cardinality(DOMAIN Data)
        /\ Data = [a |-> VInt(1), b |-> VStr("x")] =>
              Saved.values = [a |-> "1", b |-> "x"]

C5_Witness ==
    /\ Collected
    /\ Cfg.KeyType = "multiple"
    /\ Data = [a |-> VBool(TRUE), b |-> VMap, id |-> VStr("u1")]
    /\ ret = NoErr
    /\ Len(Saved.ops) = 3
    /\ Saved.values["b"] = ""

\* C6: in single key mode with field configured, a record without that
\* field, or with a value there that has no string form, makes save return
\* an error and issue no store operation, whatever the static key.
C6_MissingField ==
    (/\ Collected
     /\ Cfg.KeyType = "single"
     /\ Cfg.Field # ""
     /\ \/ Cfg.Field \notin DOMAIN Data
        \/ Data[Cfg.Field].t = "map") =>
        /\ ret # NoErr
        /\ Saved.ops = <<>>

C6_Witness ==
    /\ Collected
    /\ Cfg.KeyType = "single" /\ Cfg.Field = "id" /\ Cfg.Key = "k"
    /\ "id" \notin DOMAIN Data
    /\ ret.kind = "fieldNotExist"

\* C7 as stated: save fails with an invalid-rowkind error exactly when the
\* rowkind field is configured, present and not one of the four kinds as a
\* string, and then no store operation is issued.
C7_InvalidRowkindIff ==
    Collected =>
        /\ IsRowkindErr(ret) <=> BadRowkind(Cfg, Data)
        /\ BadRowkind(Cfg, Data) => Saved.ops = <<>>

\* C7 amended: the equivalence holds for the records whose key resolution
\* succeeds (always in multiple key mode), key resolution errors being
\* returned first; an invalid rowkind always makes save fail without any
\* store operation.
C7_InvalidRowkind ==
    Collected =>
        /\ IsRowkindErr(ret) <=> (KeyResolves(Cfg, Data) /\ BadRowkind(Cfg, Data))
        /\ BadRowkind(Cfg, Data) => (ret # NoErr /\ Saved.ops = <<>>)

C7_Witness ==
    /\ Collected
    /\ Data = [id |-> VStr("u1"), op |-> VStr("archive")]
    /\ ret.kind = "invalidRowkind"
    /\ Saved.ops = <<>>

\* The value of an option after the defaults are applied to a property map.
Effective(p, name) == IF name \in DOMAIN p THEN p[name] ELSE DefaultConfig[name]

\* The invariants of the config, on a property map with defaults applied.
ValidProps(p) ==
    /\ Effective(p, "db").t = "int"
    /\ Effective(p, "db").n \in 0..15
    /\ Effective(p, "keyType") \in {VStr("single"), VStr("multiple")}
    /\ Effective(p, "dataType") \in {VStr("string"), VStr("list")}
    /\ Effective(p, "keyType") = VStr("single") =>
          (Effective(p, "key") # VStr("") \/ Effective(p, "field") # VStr(""))

\* Every supplied option has the type of its config field.
Decodes(p) == \A k \in DOMAIN p : p[k].t = OptionType[k]

\* The invariants on the config the sink holds.
ConfigInv(cfg) ==
    /\ cfg.Db \in 0..15
    /\ cfg.KeyType \in {"single", "multiple"}
    /\ cfg.DataType \in {"string", "list"}
    /\ cfg.KeyType = "single" => (cfg.Key # "" \/ cfg.Field # "")

\* C8 as stated: Validate succeeds exactly when the properties, with the
\* defaults applied, satisfy the invariants; the config held satisfies them.
C8_ValidateIff ==
    /\ op = "Provision" => (ret = NoErr <=> ValidProps(props))
    /\ Provisioned => ConfigInv(Cfg)

\* C8 amended: Validate succeeds exactly when the properties decode into
\* the config and, with the defaults applied, satisfy the invariants; the
\* config held always satisfies them.
C8_Validate ==
    /\ op = "Provision" => (ret = NoErr <=> (Decodes(props) /\ ValidProps(props)))
    /\ op = "Provision" /\ ret = NoErr =>
          /\ Cfg.Db = Effective(props, "db").n
          /\ Cfg.KeyType = Effective(props, "keyType").s
          /\ Cfg.DataType = Effective(props, "dataType").s
    /\ Provisioned => ConfigInv(Cfg)

C8_Witness ==
    /\ op = "Provision"
    /\ ret = NoErr
    /\ props = [key |-> VStr("k"), db |-> VInt(15)]
    /\ Cfg.Db = 15

\* C9: once the sink is provisioned, no call other than Provision changes
\* the config, and a failed validation leaves it as it was.
C9_ConfigReadOnly ==
    [][(Provisioned /\ op' # "Provision") => c' = c]_vars

\* C10: Collect returns the error of save, and the error of a failed store
\* operation names the operation and the key it failed on.
C10_StoreErrorWrapped ==
    Collected =>
        /\ ret = Saved.err
        /\ \A j \in DOMAIN Saved.ops :
              ~Saved.ops[j].ok =>
                  /\ ret.key = Saved.ops[j].key
                  /\ ret.op = OpWord(Saved.ops[j].kind)

====
